---------------------------- MODULE Spec2Model ----------------------------
(***************************************************************************)
(* A model of the EAS 5850 HW 2 instructor tooling:                        *)
(*   - hw2/grade.py: grade(), read() and main() of the autograder;         *)
(*   - hw2/main.py : main() of the PACS query / modify script.             *)
(*                                                                         *)
(* Python strings are sequences of one-character strings, so that str()    *)
(* and str.lower() are computed character by character.  Dictionary keys   *)
(* are only ever compared for equality and are kept as TLA+ strings.       *)
(***************************************************************************)
EXTENDS Integers, Sequences, FiniteSets, TLC

VARIABLES
    \* ---- hw2/grade.py, main(): one grading run ----
    file,             \* what student_answer_path holds on disk
    pc,               \* position of main()
    student_answers,  \* local of main(): the value read() returned
    num_points,       \* local of main()
    idx,              \* position of the for loop in CORRECT_ANSWER.keys()
    log,              \* the logging.debug records emitted so far
    raised,           \* the exception main() left with, or "none"
    result,           \* the value main() returned
    \* ---- hw2/grade.py, grade(): calls on two given mappings ----
    g_study_info,     \* argument study_info
    g_reference,      \* argument reference_correct_answer
    g_calls,          \* the calls made so far: key, case_sensitive, exit code
    \* ---- hw2/main.py, main(): one run of the PACS script ----
    p_pc,             \* position of main()
    penn_id,          \* argument penn_id
    savepath,         \* argument savepath
    server,           \* what each patient lookup finds on the Orthanc server
    p_found,          \* local instance_info is not None
    events,           \* requests sent to the server and files written
    p_raised          \* the exception main() left with, or "none"

vars == <<file, pc, student_answers, num_points, idx, log, raised, result,
          g_study_info, g_reference, g_calls,
          p_pc, penn_id, savepath, server, p_found, events, p_raised>>

graderVars == <<file, pc, student_answers, num_points, idx, log, raised, result>>
gradeVars == <<g_study_info, g_reference, g_calls>>
pacsVars == <<p_pc, penn_id, savepath, server, p_found, events, p_raised>>

(***************************************************************************)
(* Python values as json.load produces them.  A float is modelled for the  *)
(* whole-number floats only (512.0), whose str() is the integer's digits   *)
(* followed by ".0".                                                       *)
(***************************************************************************)
NoneVal == [t |-> "NoneType", b |-> FALSE, n |-> 0, s |-> <<>>]
BoolVal(b) == [t |-> "bool", b |-> b, n |-> 0, s |-> <<>>]
IntVal(n) == [t |-> "int", b |-> FALSE, n |-> n, s |-> <<>>]
FloatVal(n) == [t |-> "float", b |-> FALSE, n |-> n, s |-> <<>>]
StrVal(s) == [t |-> "str", b |-> FALSE, n |-> 0, s |-> s]

\* The empty dict, as a function with a string domain.
EmptyDict == [k \in {} |-> NoneVal]

\* A parsed document: a dict (with its items) or a value of another type.
DictObj(d) == [t |-> "dict", d |-> d]
OtherObj(t) == [t |-> t, d |-> EmptyDict]
NoneObj == OtherObj("NoneType")

\* d with d[k] = v added or replaced.
Put(d, k, v) == [x \in DOMAIN d \cup {k} |-> IF x = k THEN v ELSE d[x]]

\* d restricted to the keys in ks.
Restrict(d, ks) == [x \in DOMAIN d \cap ks |-> d[x]]

\* d1 with the items of d2 added (disjoint keys).
Merge(d1, d2) == [x \in DOMAIN d1 \cup DOMAIN d2 |->
                    IF x \in DOMAIN d1 THEN d1[x] ELSE d2[x]]

(***************************************************************************)
(* str.lower() on ASCII text.                                              *)
(***************************************************************************)
UpperToLower ==
    ("A" :> "a") @@ ("B" :> "b") @@ ("C" :> "c") @@ ("D" :> "d") @@
    ("E" :> "e") @@ ("F" :> "f") @@ ("G" :> "g") @@ ("H" :> "h") @@
    ("I" :> "i") @@ ("J" :> "j") @@ ("K" :> "k") @@ ("L" :> "l") @@
    ("M" :> "m") @@ ("N" :> "n") @@ ("O" :> "o") @@ ("P" :> "p") @@
    ("Q" :> "q") @@ ("R" :> "r") @@ ("S" :> "s") @@ ("T" :> "t") @@
    ("U" :> "u") @@ ("V" :> "v") @@ ("W" :> "w") @@ ("X" :> "x") @@
    ("Y" :> "y") @@ ("Z" :> "z")

LowerChar(c) == IF c \in DOMAIN UpperToLower THEN UpperToLower[c] ELSE c

Lower(s) == [i \in 1..Len(s) |-> LowerChar(s[i])]

(***************************************************************************)
(* str() of a value.                                                        *)
(***************************************************************************)
Digit == <<"0", "1", "2", "3", "4", "5", "6", "7", "8", "9">>

RECURSIVE NatStr(_)
NatStr(n) == IF n < 10 THEN <<Digit[n + 1]>>
             ELSE NatStr(n \div 10) \o <<Digit[(n % 10) + 1]>>

IntStr(n) == IF n < 0 THEN <<"-">> \o NatStr(-n) ELSE NatStr(n)

\* A faulty str() that spells None the JSON way.
StrJsonNull(v) ==
    CASE v.t = "NoneType" -> <<"n", "u", "l", "l">>
      [] v.t = "bool" -> IF v.b THEN <<"T", "r", "u", "e">>
                         ELSE <<"F", "a", "l", "s", "e">>
      [] v.t = "int" -> IntStr(v.n)
      [] v.t = "float" -> IntStr(v.n) \o <<".", "0">>
      [] v.t = "str" -> v.s

\* Lines 69-70: str(value).
Str(v) ==
    CASE v.t = "NoneType" -> <<"N", "o", "n", "e">>
      [] v.t = "bool" -> IF v.b THEN <<"T", "r", "u", "e">>
                         ELSE <<"F", "a", "l", "s", "e">>
      [] v.t = "int" -> IntStr(v.n)
      [] v.t = "float" -> IntStr(v.n) \o <<".", "0">>
      [] v.t = "str" -> v.s

(***************************************************************************)
(* grade(study_info, key, reference_correct_answer, case_sensitive) on two *)
(* dicts: the exit code.                                                   *)
(***************************************************************************)
\* A faulty grade() with the exit codes 2 and 3 exchanged.
GradeSwapped(study_info, key, reference_correct_answer, case_sensitive) ==
    IF key \notin DOMAIN study_info /\ key \notin DOMAIN reference_correct_answer
    THEN 4
    ELSE IF key \notin DOMAIN reference_correct_answer THEN 2
    ELSE IF key \notin DOMAIN study_info THEN 3
    ELSE LET student_answer == Str(study_info[key])
             correct_answer == Str(reference_correct_answer[key])
         IN  IF ~case_sensitive
             THEN 1 - (IF Lower(student_answer) = Lower(correct_answer)
                       THEN 1 ELSE 0)
             ELSE 1 - (IF student_answer = correct_answer THEN 1 ELSE 0)

\* A faulty grade() that compares the values without str().
GradeNoStr(study_info, key, reference_correct_answer, case_sensitive) ==
    IF key \notin DOMAIN study_info /\ key \notin DOMAIN reference_correct_answer
    THEN 4
    ELSE IF key \notin DOMAIN reference_correct_answer THEN 3
    ELSE IF key \notin DOMAIN study_info THEN 2
    ELSE LET student_answer == study_info[key]
             correct_answer == reference_correct_answer[key]
         IN  IF student_answer.t = "str" /\ correct_answer.t = "str"
             THEN IF ~case_sensitive
                  THEN 1 - (IF Lower(student_answer.s) = Lower(correct_answer.s)
                            THEN 1 ELSE 0)
                  ELSE 1 - (IF student_answer.s = correct_answer.s THEN 1 ELSE 0)
             ELSE 1 - (IF student_answer = correct_answer THEN 1 ELSE 0)

\* Lines 61-74.
Grade(study_info, key, reference_correct_answer, case_sensitive) ==
    IF key \notin DOMAIN study_info /\ key \notin DOMAIN reference_correct_answer
    THEN 4
    ELSE IF key \notin DOMAIN reference_correct_answer THEN 3
    ELSE IF key \notin DOMAIN study_info THEN 2
    ELSE LET student_answer == Str(study_info[key])
             correct_answer == Str(reference_correct_answer[key])
         IN  IF ~case_sensitive
             THEN 1 - (IF Lower(student_answer) = Lower(correct_answer)
                       THEN 1 ELSE 0)
             ELSE 1 - (IF student_answer = correct_answer THEN 1 ELSE 0)


(***************************************************************************)
(* Values the variables of a part hold while another part is modelled.     *)
(***************************************************************************)
GraderIdle ==
    /\ file = [kind |-> "missing", value |-> NoneObj]
    /\ pc = "idle"
    /\ student_answers = NoneObj
    /\ num_points = 0
    /\ idx = 1
    /\ log = <<>>
    /\ raised = "none"
    /\ result = 0

GradeIdle ==
    /\ g_study_info = EmptyDict
    /\ g_reference = EmptyDict
    /\ g_calls = <<>>

PacsIdle ==
    /\ p_pc = "idle"
    /\ penn_id = 0
    /\ savepath = "None"
    /\ server = <<"absent", "absent">>
    /\ p_found = FALSE
    /\ events = <<>>
    /\ p_raised = "none"

(***************************************************************************)
(* SpecGrade: grade() called on two dicts drawn from small sets, with      *)
(* every key and both settings of case_sensitive.                          *)
(***************************************************************************)
MaxCalls == 2

GKeys == {"Modality", "NumRows"}

GStudentValues ==
    { StrVal(<<"C", "T">>), StrVal(<<"c", "t">>), IntVal(512),
      StrVal(<<"5", "1", "2">>), FloatVal(512), NoneVal,
      StrVal(<<"N", "o", "n", "e">>) }

GReferenceValues == { StrVal(<<"C", "T">>), IntVal(512), NoneVal }

\* Every dict with keys among ks and values among vs.
Dicts(ks, vs) == UNION { [d -> vs] : d \in SUBSET ks }

InitGrade ==
    /\ g_study_info \in Dicts(GKeys, GStudentValues)
    /\ g_reference \in Dicts(GKeys, GReferenceValues)
    /\ g_calls = <<>>
    /\ GraderIdle
    /\ PacsIdle

\* One call of grade(): nothing but the returned exit code changes.
CallGrade ==
    \E key \in GKeys, case_sensitive \in BOOLEAN :
        /\ Len(g_calls) < MaxCalls
        /\ g_calls' = Append(g_calls,
               [key |-> key, case_sensitive |-> case_sensitive,
                code |-> Grade(g_study_info, key, g_reference, case_sensitive)])
        /\ UNCHANGED <<g_study_info, g_reference, graderVars, pacsVars>>

NextGrade == CallGrade

SpecGrade == InitGrade /\ [][NextGrade]_vars

(***************************************************************************)
(* The hard-coded answer key, and the order its keys are iterated in (a    *)
(* dict keeps insertion order).                                            *)
(***************************************************************************)
CORRECT_ANSWER ==
    ("Age" :> NoneVal) @@
    ("Sex" :> StrVal(
        <<"F">>)) @@
    ("StudyDescription" :> StrVal(
        <<"C", "T", " ", "A", "B", "D", " ", "P", "E", "L", "V", "I", "S",
          "(", "W", "I", "T", "H", " ", "C", "H", "E", "S", "T", " ", "I",
          "M", "A", "G", "E", "S", ")", " ", "W", " ", "I", "V", " ", "C",
          "O", "N">>)) @@
    ("Modality" :> StrVal(
        <<"C", "T">>)) @@
    ("Manufacturer" :> StrVal(
        <<"T", "O", "S", "H", "I", "B", "A">>)) @@
    ("PatientID" :> StrVal(
        <<"A", "0", "3", "4", "5", "1", "8">>)) @@
    ("NumSeries" :> IntVal(1)) @@
    ("StudyInstanceUID" :> StrVal(
        <<"1", ".", "3", ".", "6", ".", "1", ".", "4", ".", "1", ".", "1",
          "4", "5", "1", "9", ".", "5", ".", "2", ".", "1", ".", "9", "9",
          ".", "1", "0", "7", "1", ".", "2", "8", "0", "5", "2", "1", "6",
          "6", "2", "1", "8", "4", "7", "0", "2", "7", "5", "0", "6", "8",
          "7", "0", "7", "2", "3", "0", "4", "2", "1", "8", "6", "9">>)) @@
    ("num_rows" :> IntVal(512)) @@
    ("num_cols" :> IntVal(512)) @@
    ("min_pixel_value" :> IntVal(-2048)) @@
    ("max_pixel_value" :> IntVal(1863)) @@
    ("mean_pixel_value" :> IntVal(-929))

KeyOrder ==
    <<"Age",
      "Sex",
      "StudyDescription",
      "Modality",
      "Manufacturer",
      "PatientID",
      "NumSeries",
      "StudyInstanceUID",
      "num_rows",
      "num_cols",
      "min_pixel_value",
      "max_pixel_value",
      "mean_pixel_value">>

\* A faulty loop over the keys of the submission.
StudentKeyOrder ==
    SelectSeq(KeyOrder \o <<"NumRows", "Comment">>,
              LAMBDA k : k \in DOMAIN student_answers.d)

\* Line 126: the keys main() grades, in order.
GradedKeys == KeyOrder

\* Faulty tests of the exit code: a missing key earns the point; the test
\* is inverted.
EarnsPointUnlessWrong(exit_code) == exit_code # 1

EarnsPointInverted(exit_code) == exit_code # 0

\* Line 130: whether an exit code earns the point.
EarnsPoint(exit_code) == exit_code = 0

AddPoint(n, exit_code) == IF EarnsPoint(exit_code) THEN n + 1 ELSE n

\* The for loop of main() on a dict, from position i with n points so far.
RECURSIVE ScoreFrom(_, _, _)
ScoreFrom(d, i, n) ==
    IF i > Len(GradedKeys) THEN n
    ELSE ScoreFrom(d, i + 1,
                   AddPoint(n, Grade(d, GradedKeys[i], CORRECT_ANSWER, FALSE)))

Score(d) == ScoreFrom(d, 1, 0)

(***************************************************************************)
(* read(student_answer_path): the exception it leaves with, or the value   *)
(* it returns.  The first open/json.load is outside the try statement.     *)
(***************************************************************************)
Read(f) ==
    IF f.kind = "missing"
    THEN [raised |-> "FileNotFoundError", value |-> NoneObj]
    ELSE IF f.kind = "malformed"
    THEN [raised |-> "JSONDecodeError", value |-> NoneObj]  \* line 89
    ELSE IF f.kind = "malformed"
    THEN [raised |-> "none", value |-> NoneObj]             \* lines 93-94
    ELSE [raised |-> "none", value |-> f.value]             \* line 95

\* Line 61: study_info.keys() exists for a dict only.
\* A faulty grade() that fails on a dict lacking a reference key.
HasKeysStrict(obj) == obj.t = "dict" /\ DOMAIN CORRECT_ANSWER \subseteq DOMAIN obj.d

HasKeys(obj) == obj.t = "dict"

(***************************************************************************)
(* The submissions of a grading run: the answer key changed at no more     *)
(* than MaxDeviations keys (another spelling, another type, a wrong        *)
(* value, or the key left out), with at most MaxExtra keys the answer key  *)
(* does not have.                                                          *)
(***************************************************************************)
MaxDeviations == 1

MaxExtra == 1

RefKeys == DOMAIN CORRECT_ANSWER

WrongValue == StrVal(<<"4", "5">>)

Absent == [t |-> "absent", b |-> FALSE, n |-> 0, s |-> <<>>]

Candidates(k) ==
    LET r == CORRECT_ANSWER[k]
    IN  {r, StrVal(Str(r)), StrVal(Lower(Str(r))), WrongValue}
          \cup (IF r.t = "int" THEN {FloatVal(r.n)} ELSE {})

Options(k) == (Candidates(k) \ {CORRECT_ANSWER[k]}) \cup {Absent}

AllOptions == UNION { Options(k) : k \in RefKeys }

Deviating(D) ==
    { [k \in {x \in RefKeys : x \notin D \/ c[x] # Absent} |->
          IF k \in D THEN c[k] ELSE CORRECT_ANSWER[k]] :
      c \in { c \in [D -> AllOptions] : \A k \in D : c[k] \in Options(k) } }

RefParts ==
    UNION { Deviating(D) :
            D \in { D \in SUBSET RefKeys : Cardinality(D) <= MaxDeviations } }

ExtraKeys == {"NumRows", "Comment"}

ExtraValues == {IntVal(512), WrongValue}

ExtraDicts ==
    { e \in Dicts(ExtraKeys, ExtraValues) : Cardinality(DOMAIN e) <= MaxExtra }

Submissions == { Merge(d, e) : d \in RefParts, e \in ExtraDicts }

Files ==
    { [kind |-> "missing", value |-> NoneObj],
      [kind |-> "malformed", value |-> NoneObj] }
      \cup { [kind |-> "json", value |-> OtherObj(t)] :
               t \in {"NoneType", "list", "str", "int", "float", "bool"} }
      \cup { [kind |-> "json", value |-> DictObj(d)] : d \in Submissions }

(***************************************************************************)
(* Spec: one run of main(student_answer_path) of hw2/grade.py.             *)
(***************************************************************************)
Init ==
    /\ file \in Files
    /\ pc = "start"
    /\ student_answers = NoneObj
    /\ num_points = 0
    /\ idx = 1
    /\ log = <<>>
    /\ raised = "none"
    /\ result = 0
    /\ GradeIdle
    /\ PacsIdle

\* Lines 119-125: read the answer; None ends the run with 0.
MainRead ==
    /\ pc = "start"
    /\ LET r == Read(file)
       IN  IF r.raised # "none"
           THEN /\ pc' = "raised"
                /\ raised' = r.raised
                /\ UNCHANGED <<student_answers, log, result>>
           ELSE /\ student_answers' = r.value
                /\ raised' = raised
                /\ IF r.value = NoneObj
                   THEN /\ log' = Append(log, [msg |-> "not a valid JSON file",
                                               key |-> "", code |-> 0])
                        /\ result' = 0
                        /\ pc' = "done"
                   ELSE /\ pc' = "loop"
                        /\ UNCHANGED <<log, result>>
    /\ num_points' = 0
    /\ idx' = 1
    /\ UNCHANGED <<file, gradeVars, pacsVars>>

\* Lines 126-133: one iteration of the for loop.
MainGradeKey ==
    /\ pc = "loop"
    /\ idx <= Len(GradedKeys)
    /\ LET key == GradedKeys[idx]
       IN  IF ~HasKeys(student_answers)
           THEN /\ pc' = "raised"
                /\ raised' = "AttributeError"
                /\ UNCHANGED <<num_points, idx, log>>
           ELSE LET exit_code ==
                        Grade(student_answers.d, key, CORRECT_ANSWER, FALSE)
                IN  /\ num_points' = AddPoint(num_points, exit_code)
                    /\ log' = IF EarnsPoint(exit_code) THEN log
                              ELSE Append(log, [msg |-> "Error code",
                                                key |-> key, code |-> exit_code])
                    /\ idx' = idx + 1
                    /\ UNCHANGED <<pc, raised>>
    /\ UNCHANGED <<file, student_answers, result, gradeVars, pacsVars>>

\* Line 134.
MainReturn ==
    /\ pc = "loop"
    /\ idx > Len(GradedKeys)
    /\ result' = num_points
    /\ pc' = "done"
    /\ UNCHANGED <<file, student_answers, num_points, idx, log, raised,
                   gradeVars, pacsVars>>

Next == MainRead \/ MainGradeKey \/ MainReturn

Spec == Init /\ [][Next]_vars

(***************************************************************************)
(* Properties of a grading run (Spec).                                     *)
(***************************************************************************)
Graded == pc \in {"loop", "done"} /\ HasKeys(student_answers)

Finished == pc \in {"done", "raised"}

Matches(d) == { k \in RefKeys : Grade(d, k, CORRECT_ANSWER, FALSE) = 0 }

LoggedCodes(k) == { log[i].code : i \in { j \in 1..Len(log) : log[j].key = k } }

\* C1: a malformed or missing submission file does not make the run raise:
\* read returns None and main returns the score 0.
C1_BadFileScoresZero ==
    (file.kind \in {"missing", "malformed"} /\ pc # "start")
        => /\ pc = "done"
           /\ raised = "none"
           /\ student_answers = NoneObj
           /\ result = 0

\* C4: the score main returns is the number of reference fields whose
\* verdict is Match, and all along the loop 0 <= score <= number of fields
\* graded so far <= |reference|.
C4_ScoreCountsMatches ==
    /\ Graded =>
          /\ 0 <= num_points
          /\ num_points <= idx - 1
          /\ idx - 1 <= Cardinality(RefKeys)
          /\ num_points =
                Cardinality({ i \in 1..(idx - 1) :
                    Grade(student_answers.d, KeyOrder[i], CORRECT_ANSWER, FALSE) = 0 })
    /\ (Graded /\ pc = "done") =>
          result = Cardinality(Matches(student_answers.d))
    /\ pc = "done" => (0 <= result /\ result <= Cardinality(RefKeys))

C4_Witness ==
    /\ pc = "done"
    /\ HasKeys(student_answers)
    /\ result = Cardinality(RefKeys) - 1
    /\ Len(log) = 1

\* C5: adding a reference field that the submission lacks, with a correct
\* value and nothing else changed, never lowers the score.
C5_AddingCorrectFieldKeepsScore ==
    (Graded /\ pc = "done") =>
        \A f \in RefKeys \ DOMAIN student_answers.d :
            \A v \in Candidates(f) :
                Lower(Str(v)) = Lower(Str(CORRECT_ANSWER[f]))
                    => Score(Put(student_answers.d, f, v)) >= result

C5_Witness ==
    /\ pc = "done"
    /\ HasKeys(student_answers)
    /\ "Modality" \notin DOMAIN student_answers.d
    /\ result = Cardinality(RefKeys) - 1
    /\ Score(Put(student_answers.d, "Modality", StrVal(<<"c", "t">>)))
          = Cardinality(RefKeys)

\* C6: the score depends only on the submission's entries for reference
\* keys: whatever extra keys are added or removed the score is the same,
\* and no key outside the reference is ever graded.
C6_ExtraKeysAreIgnored ==
    (Graded /\ pc = "done") =>
        /\ \A e \in ExtraDicts :
              Score(Merge(Restrict(student_answers.d, RefKeys), e)) = result
        /\ \A i \in 1..Len(log) : log[i].key \in RefKeys
        /\ idx - 1 = Cardinality(RefKeys)

C6_Witness ==
    /\ pc = "done"
    /\ HasKeys(student_answers)
    /\ "NumRows" \in DOMAIN student_answers.d
    /\ "num_rows" \notin DOMAIN student_answers.d
    /\ result = Cardinality(RefKeys) - 1

\* C7 as claimed: every document that parses as JSON, object or not, is
\* scored field by field and main returns an integer without raising.
C7_EveryParsedDocumentIsScored ==
    (file.kind = "json" /\ Finished) =>
        /\ pc = "done"
        /\ raised = "none"
        /\ idx - 1 = Cardinality(RefKeys)
        /\ result \in 0..Cardinality(RefKeys)

\* C7 as amended: a document that parses to a JSON object is scored field
\* by field and main returns an integer without raising, missing keys
\* showing up as exit codes; null is taken for no submission (score 0, no
\* field graded); an array, string, number or boolean makes grade raise
\* AttributeError at the first field.
C7_ObjectsAreScored ==
    (file.kind = "json" /\ Finished) =>
        CASE file.value.t = "dict" ->
                 /\ pc = "done"
                 /\ raised = "none"
                 /\ idx - 1 = Cardinality(RefKeys)
                 /\ result \in 0..Cardinality(RefKeys)
                 /\ \A k \in RefKeys \ DOMAIN file.value.d : LoggedCodes(k) = {2}
          [] file.value.t = "NoneType" ->
                 /\ pc = "done"
                 /\ raised = "none"
                 /\ idx = 1
                 /\ result = 0
          [] OTHER ->
                 /\ pc = "raised"
                 /\ raised = "AttributeError"
                 /\ idx = 1

C7_Witness ==
    /\ file.kind = "json"
    /\ file.value.t = "dict"
    /\ pc = "done"
    /\ "Sex" \notin DOMAIN file.value.d
    /\ LoggedCodes("Sex") = {2}
    /\ result = Cardinality(RefKeys) - 1

\* C9: with the answer key's Age of None, Age is Match exactly when the
\* lower-cased string of the submitted Age is "none"; a submission with an
\* actual age gets Mismatch for Age and scores at most 12 of 13.
C9_AgeMatchesOnlyNone ==
    (Graded /\ idx > 1 /\ "Age" \in DOMAIN student_answers.d) =>
        LET age == student_answers.d["Age"]
        IN  /\ KeyOrder[1] = "Age"
            /\ Cardinality(RefKeys) = 13
            /\ LoggedCodes("Age") \subseteq {1}
            /\ (LoggedCodes("Age") = {})
                  <=> (Lower(Str(age)) = <<"n", "o", "n", "e">>)
            /\ age \in {NoneVal, StrVal(<<"N", "o", "n", "e">>)}
                  => LoggedCodes("Age") = {}
            /\ age = StrVal(<<"4", "5">>) => LoggedCodes("Age") = {1}
            /\ (LoggedCodes("Age") = {1} /\ pc = "done") => result <= 12

C9_Witness ==
    /\ pc = "done"
    /\ HasKeys(student_answers)
    /\ "Age" \in DOMAIN student_answers.d
    /\ student_answers.d["Age"] = StrVal(<<"4", "5">>)
    /\ LoggedCodes("Age") = {1}
    /\ result = 12

(***************************************************************************)
(* Properties of grade() (SpecGrade).                                      *)
(***************************************************************************)
Calls == 1..Len(g_calls)

InStudent(i) == g_calls[i].key \in DOMAIN g_study_info

InReference(i) == g_calls[i].key \in DOMAIN g_reference

\* C2: grade returns one verdict chosen by key presence: absent from both
\* -> 4; absent from the reference only -> 3; absent from the submission
\* only -> 2; Match (0) or Mismatch (1) only when present in both.
C2_VerdictByKeyPresence ==
    \A i \in Calls :
        /\ g_calls[i].code \in 0..4
        /\ g_calls[i].code = 4 <=> (~InStudent(i) /\ ~InReference(i))
        /\ g_calls[i].code = 3 <=> (InStudent(i) /\ ~InReference(i))
        /\ g_calls[i].code = 2 <=> (~InStudent(i) /\ InReference(i))
        /\ g_calls[i].code \in {0, 1} <=> (InStudent(i) /\ InReference(i))

C2_Witness ==
    \E i, j \in Calls :
        /\ g_calls[i].code = 3
        /\ g_calls[j].code = 2

\* C3: for a field present in both mappings grade compares the string
\* forms of the two values, lower-cased unless case_sensitive: "ct" against
\* "CT" is Match when case-insensitive and Mismatch when case-sensitive,
\* and "512" against 512 is Match.
C3_ComparesStringForms ==
    \A i \in Calls :
        (InStudent(i) /\ InReference(i)) =>
            LET c == g_calls[i]
                a == g_study_info[c.key]
                r == g_reference[c.key]
            IN  /\ c.code \in {0, 1}
                /\ ~c.case_sensitive =>
                      (c.code = 0 <=> Lower(Str(a)) = Lower(Str(r)))
                /\ c.case_sensitive => (c.code = 0 <=> Str(a) = Str(r))
                /\ (a = StrVal(<<"c", "t">>) /\ r = StrVal(<<"C", "T">>))
                      => c.code = IF c.case_sensitive THEN 1 ELSE 0
                /\ (a = StrVal(<<"5", "1", "2">>) /\ r = IntVal(512))
                      => c.code = 0
                /\ (a = FloatVal(512) /\ r = IntVal(512)) => c.code = 1
                /\ (a = StrVal(<<"N", "o", "n", "e">>) /\ r = NoneVal)
                      => c.code = 0

C3_Witness ==
    \E i, j \in Calls :
        /\ g_calls[i].key = "Modality"
        /\ g_calls[j].key = "Modality"
        /\ "Modality" \in DOMAIN g_study_info
        /\ "Modality" \in DOMAIN g_reference
        /\ g_study_info["Modality"] = StrVal(<<"c", "t">>)
        /\ g_reference["Modality"] = StrVal(<<"C", "T">>)
        /\ ~g_calls[i].case_sensitive /\ g_calls[i].code = 0
        /\ g_calls[j].case_sensitive /\ g_calls[j].code = 1


(***************************************************************************)
(* SpecPacs: one run of main(penn_id, savepath=...) of hw2/main.py against *)
(* an Orthanc server.  The server is outside the program: what each of the *)
(* two patient lookups finds is drawn by InitPacs.                         *)
(*   "absent"    : find_patients returns no patient;                       *)
(*   "found"     : the patient, study, series and instance are there;      *)
(*   "no_series" : the patient is there, no series has the series_number   *)
(*                 asked for, and next() raises StopIteration.             *)
(* savepath is "None" for None; "no_such_dir/study_info.json" is a path    *)
(* open() cannot create.                                                   *)
(***************************************************************************)
PennIdMin == 10000000

PennIdMax == 99999999

PENN_ID == 12345678

PennIds == {PennIdMin - 1, PennIdMin, PENN_ID, PennIdMax, PennIdMax + 1}

SavePaths == {"None", "study_info.json", "no_such_dir/study_info.json"}

LookupOutcomes == {"absent", "found", "no_series"}

FirstPatient == "A034518"

SecondPatient == "3142537564"

InitPacs ==
    /\ p_pc = "start"
    /\ penn_id \in PennIds
    /\ savepath \in SavePaths
    /\ server \in [1..2 -> LookupOutcomes]
    /\ p_found = FALSE
    /\ events = <<>>
    /\ p_raised = "none"
    /\ GraderIdle
    /\ GradeIdle

Request(op, patient) == [op |-> op, patient |-> patient]

\* get_instance_info: the exception it leaves with and whether the
\* instance_info it returns is not None.
GetInstanceInfo(outcome) ==
    CASE outcome = "absent" -> [raised |-> "none", found |-> FALSE]
      [] outcome = "no_series" -> [raised |-> "StopIteration", found |-> FALSE]
      [] outcome = "found" -> [raised |-> "none", found |-> TRUE]

\* modify_instance_info: the modify requests sent, in order.  patient, study
\* and series say whether the argument is not None; the replace arguments
\* are the sets of tags to replace.
ModifyInstanceInfo(id, patient, study, series, patient_replace, study_replace, series_replace) ==
    (IF series /\ Cardinality(series_replace) # 0
     THEN <<Request("series.modify", id)>> ELSE <<>>)
    \o (IF study /\ Cardinality(study_replace) # 0
        THEN <<Request("study.modify", id)>> ELSE <<>>)
    \o (IF patient /\ Cardinality(patient_replace) # 0
        THEN <<Request("patient.modify", id)>> ELSE <<>>)

\* Line 201: the Penn ID assertion (and the client, which sends nothing).
PacsStart ==
    /\ p_pc = "start"
    /\ IF PennIdMin <= penn_id /\ penn_id <= PennIdMax
       THEN p_pc' = "query1" /\ p_raised' = p_raised
       ELSE p_pc' = "raised" /\ p_raised' = "AssertionError"
    /\ UNCHANGED <<penn_id, savepath, server, p_found, events,
                   graderVars, gradeVars>>

\* A lookup whose missing patient does not stop the run.
LookupUnchecked(at, patient, outcome, then) ==
    /\ p_pc = at
    /\ events' = Append(events, Request("find_patients", patient))
    /\ LET r == GetInstanceInfo(outcome)
       IN  IF r.raised # "none"
           THEN p_pc' = "raised" /\ p_raised' = r.raised /\ p_found' = FALSE
           ELSE p_pc' = then /\ p_raised' = p_raised /\ p_found' = r.found
    /\ UNCHANGED <<penn_id, savepath, server, graderVars, gradeVars>>

\* Lines 211-217 and 222-228: get_instance_info and the assertion on it.
Lookup(at, patient, outcome, then) ==
    /\ p_pc = at
    /\ events' = Append(events, Request("find_patients", patient))
    /\ LET r == GetInstanceInfo(outcome)
       IN  IF r.raised # "none"
           THEN p_pc' = "raised" /\ p_raised' = r.raised /\ p_found' = FALSE
           ELSE IF ~r.found
           THEN p_pc' = "raised" /\ p_raised' = "AssertionError"
                /\ p_found' = FALSE
           ELSE p_pc' = then /\ p_raised' = p_raised /\ p_found' = TRUE
    /\ UNCHANGED <<penn_id, savepath, server, graderVars, gradeVars>>

PacsQueryFirst == Lookup("query1", FirstPatient, server[1], "save")

\* Lines 219-220: save_instance_info when a savepath is given.
PacsSave ==
    /\ p_pc = "save"
    /\ IF savepath = "None"
       THEN p_pc' = "query2" /\ UNCHANGED <<events, p_raised>>
       ELSE IF ~p_found
       THEN p_pc' = "raised" /\ p_raised' = "AttributeError"
            /\ UNCHANGED events
       ELSE IF savepath = "no_such_dir/study_info.json"
       THEN p_pc' = "raised" /\ p_raised' = "FileNotFoundError"
            /\ UNCHANGED events
       ELSE /\ events' = Append(events, Request("write_json", FirstPatient))
            /\ p_pc' = "query2"
            /\ p_raised' = p_raised
    /\ UNCHANGED <<penn_id, savepath, server, p_found, graderVars, gradeVars>>

PacsQuerySecond == Lookup("query2", SecondPatient, server[2], "modify")

\* Lines 229-248: the new UID and modify_instance_info.
PacsModify ==
    /\ p_pc = "modify"
    /\ IF ~p_found
       THEN p_pc' = "raised" /\ p_raised' = "AttributeError"
            /\ UNCHANGED events
       ELSE /\ events' = events \o ModifyInstanceInfo(SecondPatient,
                  p_found, p_found, p_found,
                  {"PatientSex", "PatientID"},
                  {"AccessionNumber", "StudyInstanceUID", "StudyDate",
                   "ReferringPhysicianName"},
                  {})
            /\ p_pc' = "done"
            /\ p_raised' = p_raised
    /\ UNCHANGED <<penn_id, savepath, server, p_found, graderVars, gradeVars>>

NextPacs ==
    PacsStart \/ PacsQueryFirst \/ PacsSave \/ PacsQuerySecond \/ PacsModify

SpecPacs == InitPacs /\ [][NextPacs]_vars

(***************************************************************************)
(* Properties of the PACS script (SpecPacs).                               *)
(***************************************************************************)
IsModify(e) == e.op \in {"series.modify", "study.modify", "patient.modify"}

Found(i, patient, n) ==
    /\ events[i] = Request("find_patients", patient)
    /\ server[n] = "found"

\* C10: a modify request is sent only after both patient lookups returned
\* a patient, in the order first lookup, JSON written (when a savepath is
\* given), second lookup, modify; and when a lookup finds no patient the
\* run stops on the assertion and no modify request is ever sent.
C10_ModifyOnlyAfterBothLookups ==
    /\ \A m \in 1..Len(events) :
          IsModify(events[m]) =>
              \E i, k \in 1..(m - 1) :
                  /\ i < k
                  /\ Found(i, FirstPatient, 1)
                  /\ Found(k, SecondPatient, 2)
                  /\ savepath # "None" =>
                        \E w \in (i + 1)..(k - 1) :
                            events[w] = Request("write_json", FirstPatient)
    /\ \A n \in 1..2 :
          (/\ server[n] = "absent"
           /\ \E i \in 1..Len(events) :
                 events[i] = Request("find_patients",
                                     IF n = 1 THEN FirstPatient
                                     ELSE SecondPatient))
              => /\ p_pc = "raised"
                 /\ p_raised = "AssertionError"
                 /\ ~p_found
                 /\ \A m \in 1..Len(events) : ~IsModify(events[m])

C10_Witness ==
    /\ p_pc = "done"
    /\ savepath = "study_info.json"
    /\ events = << Request("find_patients", FirstPatient),
                   Request("write_json", FirstPatient),
                   Request("find_patients", SecondPatient),
                   Request("study.modify", SecondPatient),
                   Request("patient.modify", SecondPatient) >>

=============================================================================
